---- MODULE Spec2Model ----
(***************************************************************************)
(* Model of the RXCROPMATURITY system test                                 *)
(* (cime_config/SystemTests/rxcropmaturity.py).                            *)
(*                                                                         *)
(* Text is modelled as sequences of tokens: a STOP_OPTION, a path, a file  *)
(* name and a namelist line are each a sequence of tokens, so that the     *)
(* substring tests, the glob and the regular expression of the source are  *)
(* computed on the text and not assumed.                                   *)
(***************************************************************************)
EXTENDS Integers, Sequences, FiniteSets, TLC

VARIABLES pc, case, env, fs, self, user_nl, trace, failed

vars == <<pc, case, env, fs, self, user_nl, trace, failed>>

\* ------------------------------------------------------------------------
\* Bounds of the model
\* ------------------------------------------------------------------------
\* STOP_N is drawn around the multiples 0..MaxYears of each unit's length.
MaxYears == 6
\* lnd_in texts of up to MaxLines lines.
MaxLines == 2
\* The derivation tool leaves up to MaxOutFiles files in its output directory.
MaxOutFiles == 2

\* ------------------------------------------------------------------------
\* Text helpers
\* ------------------------------------------------------------------------
\* Python's `sub in text`, for a token `sub`.
Contains(sub, text) == \E i \in DOMAIN text : text[i] = sub

\* Python's None.
None == <<"None">>

\* Attributes of an object: a field exists once it has been assigned.
HasAttr(me, name) == name \in DOMAIN me
SetAttrs(me, new) ==
    [n \in DOMAIN me \cup DOMAIN new |-> IF n \in DOMAIN new THEN new[n] ELSE me[n]]

\* os.path.join(path, name)
PathJoin(path, name) == path \o <<"/">> \o name

\* ------------------------------------------------------------------------
\* __init__: run-length validation
\* ------------------------------------------------------------------------
nminutes == <<"nminute", "s">>
nhours == <<"nhour", "s">>
ndays == <<"nday", "s">>
nyears == <<"nyear", "s">>

\* One `if "<unit>" in stop_option: stop_n /= k; stop_option = "<next>"`.
\* stop_n is the exact quotient num/den of Python's true division.
ConvertStep(s, unit, k, next) ==
    IF Contains(unit, s.opt)
    THEN [num |-> s.num, den |-> s.den * k, opt |-> next]
    ELSE s
\* Variant: a year of 360 days.
NormalizeStop_Days360(stop_n, stop_option) ==
    LET s0 == [num |-> stop_n, den |-> 1, opt |-> stop_option]
        s1 == ConvertStep(s0, "nsecond", 60, nminutes)
        s2 == ConvertStep(s1, "nminute", 60, nhours)
        s3 == ConvertStep(s2, "nhour", 24, ndays)
        s4 == ConvertStep(s3, "nday", 360, nyears)
        s5 == ConvertStep(s4, "nmonth", 12, nyears)
    IN  s5

\* Lines 41-55: the chain of conversions, in the order of the source.
NormalizeStop(stop_n, stop_option) ==
    LET s0 == [num |-> stop_n, den |-> 1, opt |-> stop_option]
        s1 == ConvertStep(s0, "nsecond", 60, nminutes)
        s2 == ConvertStep(s1, "nminute", 60, nhours)
        s3 == ConvertStep(s2, "nhour", 24, ndays)
        s4 == ConvertStep(s3, "nday", 365, nyears)
        s5 == ConvertStep(s4, "nmonth", 12, nyears)
    IN  s5
\* Variant: the comparison with the minimum of 5 years made inclusive.
StopErrorMessage_Inclusive(s) ==
    LET unit_error == IF ~Contains("nyear", s.opt) THEN "unit" ELSE "none"
    IN  IF s.num <= 5 * s.den THEN "length" ELSE unit_error

\* Lines 56-66: the two independent `if`s; the second overwrites the first.
StopErrorMessage(s) ==
    LET unit_error == IF ~Contains("nyear", s.opt) THEN "unit" ELSE "none"
    IN  IF s.num < 5 * s.den THEN "length" ELSE unit_error

\* int(stop_n): truncation towards zero.
IntOf(s) ==
    IF s.num >= 0 THEN s.num \div s.den ELSE -((-s.num) \div s.den)

\* ------------------------------------------------------------------------
\* _setup_all: sowing and harvest date files of the resolution
\* ------------------------------------------------------------------------
blessed_crop_dates_dir == "/glade/work/samrabin/crop_dates_blessed"

sdates_f10 == <<blessed_crop_dates_dir, "/",
    "sdates_ggcmi_crop_calendar_phase3_v1.01_nninterp-f10_f10_mg37.2000-2000.20230330_165301.fill1.nc">>
hdates_f10 == <<blessed_crop_dates_dir, "/",
    "hdates_ggcmi_crop_calendar_phase3_v1.01_nninterp-f10_f10_mg37.2000-2000.20230330_165301.fill1.nc">>
sdates_f19 == <<blessed_crop_dates_dir, "/",
    "sdates_ggcmi_crop_calendar_phase3_v1.01_nninterp-f19_g17.2000-2000.20230102_175625.fill1.nc">>
hdates_f19 == <<blessed_crop_dates_dir, "/",
    "hdates_ggcmi_crop_calendar_phase3_v1.01_nninterp-f19_g17.2000-2000.20230102_175625.fill1.nc">>

BlessedFiles == {sdates_f10, hdates_f10, sdates_f19, hdates_f19}

\* Lines 309-331: the namelist lines common to both runs.
ModifyUserNlAllruns(mesh, sdatefile) ==
    << <<"stream_meshfile_cropcal", mesh>>,
       <<"stream_fldFileName_sdate", sdatefile>>,
       <<"stream_year_first_cropcal", "2000">>,
       <<"stream_year_last_cropcal", "2000">>,
       <<"model_year_align_cropcal", "2000">>,
       <<" ">>,
       <<"! (h1) Daily outputs for GDD generation and figure-making">>,
       <<"hist_fincl2", "'HUI', 'GDDACCUM', 'GDDHARV'">>,
       <<"hist_nhtfrq(2)", "-24">>,
       <<"hist_mfilt(2)", "365">>,
       <<"hist_type1d_pertape(2)", "'PFTS'">>,
       <<"hist_dov2xy(2)", ".false.">>,
       <<" ">>,
       <<"! (h2) Annual outputs for GDD generation (checks)">>,
       <<"hist_fincl3", "PERHARV variables">>,
       <<"hist_nhtfrq(3)", "17520">>,
       <<"hist_mfilt(3)", "999">>,
       <<"hist_type1d_pertape(3)", "'PFTS'">>,
       <<"hist_dov2xy(3)", ".false.">> >>
\* Variant: the 1.9x2.5 branch names the files of the 10x15 branch.
CropDateFiles_Copied(lnd_grid) ==
    IF lnd_grid = "10x15" THEN <<sdates_f10, hdates_f10>>
    ELSE IF lnd_grid = "1.9x2.5" THEN <<sdates_f10, hdates_f10>>
    ELSE None

\* Lines 187-205: the lookup of the file pair; None for any other grid.
CropDateFiles(lnd_grid) ==
    IF lnd_grid = "10x15" THEN <<sdates_f10, hdates_f10>>
    ELSE IF lnd_grid = "1.9x2.5" THEN <<sdates_f19, hdates_f19>>
    ELSE None
\* Variant: the namelist lines are appended before the files are checked.
SetupAll_AppendFirst(me, xml, existing) ==
    LET pair == CropDateFiles(xml.LND_GRID)
        me1 == SetAttrs(me, [ctsm_root |-> xml.COMP_ROOT_DIR_LND,
                             run_startyear |-> xml.RUN_STARTYEAR])
    IN  IF pair = None
        THEN [raised |-> "resolution", me |-> me1, events |-> <<>>, lines |-> <<>>]
        ELSE
          LET me2 == SetAttrs(me1, [sdatefile |-> pair[1], hdatefile |-> pair[2]])
              lines == ModifyUserNlAllruns(xml.LND_DOMAIN_MESH, me2.sdatefile)
              appended == << <<"append_nl", me.case, lines>> >>
          IN  IF me2.sdatefile \notin existing
              THEN [raised |-> "sdatefile", me |-> me2,
                    events |-> appended \o << <<"exists", me2.sdatefile>> >>,
                    lines |-> lines]
              ELSE IF me2.hdatefile \notin existing
              THEN [raised |-> "hdatefile", me |-> me2,
                    events |-> appended \o << <<"exists", me2.sdatefile>>,
                                              <<"exists", me2.hdatefile>> >>,
                    lines |-> lines]
              ELSE [raised |-> "none", me |-> me2,
                    events |-> appended \o << <<"exists", me2.sdatefile>>,
                                              <<"exists", me2.hdatefile>> >>,
                    lines |-> lines]

\* Lines 170-216: _setup_all on the active case me.case, as the events it
\* performs, the fields it sets, the lines it appends and whether it raises.
SetupAll(me, xml, existing) ==
    LET pair == CropDateFiles(xml.LND_GRID)
        me1 == SetAttrs(me, [ctsm_root |-> xml.COMP_ROOT_DIR_LND,
                             run_startyear |-> xml.RUN_STARTYEAR])
    IN  IF pair = None
        THEN [raised |-> "resolution", me |-> me1, events |-> <<>>, lines |-> <<>>]
        ELSE
          LET me2 == SetAttrs(me1, [sdatefile |-> pair[1], hdatefile |-> pair[2]])
              lines == ModifyUserNlAllruns(xml.LND_DOMAIN_MESH, me2.sdatefile)
          IN  IF me2.sdatefile \notin existing
              THEN [raised |-> "sdatefile", me |-> me2,
                    events |-> << <<"exists", me2.sdatefile>> >>, lines |-> <<>>]
              ELSE IF me2.hdatefile \notin existing
              THEN [raised |-> "hdatefile", me |-> me2,
                    events |-> << <<"exists", me2.sdatefile>>, <<"exists", me2.hdatefile>> >>,
                    lines |-> <<>>]
              ELSE [raised |-> "none", me |-> me2,
                    events |-> << <<"exists", me2.sdatefile>>, <<"exists", me2.hdatefile>>,
                                  <<"append_nl", me.case, lines>> >>,
                    lines |-> lines]

\* ------------------------------------------------------------------------
\* run_phase: the scan of lnd_in for flanduse_timeseries
\* ------------------------------------------------------------------------
\* The first position at or after i that holds no space (Len(line)+1 if none).
SkipSpaces(line, i) ==
    CHOOSE j \in i..(Len(line) + 1) :
        /\ \A k \in i..(j - 1) : line[k] = "sp"
        /\ (j = Len(line) + 1 \/ line[j] # "sp")

TokenAt(line, i, tok) == i <= Len(line) /\ line[i] = tok

SetMax(S) == CHOOSE x \in S : \A y \in S : y <= x
SetMin(S) == CHOOSE x \in S : \A y \in S : x <= y

\* Line 116: re.match(r" *flanduse_timeseries *= *'(.*)'", line).group(1),
\* or None. re.match anchors at the start of the line only; (.*) is greedy,
\* so the group ends at the last quote of the line.
ReMatchFlanduse(line) ==
    LET i1 == SkipSpaces(line, 1)
        i2 == SkipSpaces(line, i1 + 1)
        i3 == SkipSpaces(line, i2 + 1)
        closing == {j \in (i3 + 1)..Len(line) : line[j] = "'"}
    IN  IF /\ TokenAt(line, i1, "flanduse_timeseries")
           /\ TokenAt(line, i2, "=")
           /\ TokenAt(line, i3, "'")
           /\ closing # {}
        THEN SubSeq(line, i3 + 1, SetMax(closing) - 1)
        ELSE None
\* Variant: the loop is not left at the first match.
ScanFlanduse_NoBreak(lnd_in) ==
    LET hits == {i \in DOMAIN lnd_in : ReMatchFlanduse(lnd_in[i]) # None}
    IN  IF hits = {} THEN None ELSE ReMatchFlanduse(lnd_in[SetMax(hits)])

\* Lines 113-119: the loop over the lines, left at the first match.
ScanFlanduse(lnd_in) ==
    LET hits == {i \in DOMAIN lnd_in : ReMatchFlanduse(lnd_in[i]) # None}
    IN  IF hits = {} THEN None ELSE ReMatchFlanduse(lnd_in[SetMin(hits)])

\* ------------------------------------------------------------------------
\* _run_generate_gdds: discovery of the maturity requirements file
\* ------------------------------------------------------------------------
\* fnmatch of a file name against "gdds_*.nc".
GlobGdds(name) ==
    Len(name) >= 2 /\ name[1] = "gdds_" /\ name[Len(name)] = ".nc"
\* Variant: the filter keeps the fill0 files instead of dropping them.
GeneratedGddFiles_Inverted(dir, names) ==
    LET globbed == {PathJoin(dir, n) : n \in {m \in names : GlobGdds(m)}}
    IN  {x \in globbed : Contains("fill0", x)}

\* Lines 361-362: glob of <dir>/gdds_*.nc, then the filter on the whole path.
GeneratedGddFiles(dir, names) ==
    LET globbed == {PathJoin(dir, n) : n \in {m \in names : GlobGdds(m)}}
    IN  {x \in globbed : ~Contains("fill0", x)}

\* ------------------------------------------------------------------------
\* _run_python_script and _get_conda_env
\* ------------------------------------------------------------------------
\* Lines 369-386: the prefix that makes conda available.
GetCondaEnv(conda_found) ==
    IF conda_found THEN <<"conda run -n ctsm_pylib">>
    ELSE <<"module unload python; module load conda;", "conda run -n ctsm_pylib">>
\* Variant: the failure of the command is reported but not re-raised.
RunPythonScript_Swallow(target, caseroot, conda_found, tool_name, args, exit) ==
    LET command == [env_mach_specific |-> caseroot,
                    conda_env |-> GetCondaEnv(conda_found), args |-> args]
        before == << <<"load_env", target>>, <<"which_conda">>,
                     <<"exec", tool_name, command>>, <<"exit", tool_name, exit>> >>
    IN  IF exit # 0
        THEN [raised |-> FALSE, events |-> before \o << <<"diag", tool_name>> >>]
        ELSE [raised |-> FALSE, events |-> before]

\* Variant: the environment of the case is loaded after the command has run.
RunPythonScript_LateEnv(target, caseroot, conda_found, tool_name, args, exit) ==
    LET command == [env_mach_specific |-> caseroot,
                    conda_env |-> GetCondaEnv(conda_found), args |-> args]
        before == << <<"which_conda">>, <<"exec", tool_name, command>>,
                     <<"exit", tool_name, exit>>, <<"load_env", target>> >>
    IN  IF exit # 0
        THEN [raised |-> TRUE,
              events |-> before \o << <<"diag", tool_name>>, <<"raise", "tool">> >>]
        ELSE [raised |-> FALSE, events |-> before]

\* Lines 399-430: the events of one call and whether it re-raises.
RunPythonScript(target, caseroot, conda_found, tool_name, args, exit) ==
    LET command == [env_mach_specific |-> caseroot,
                    conda_env |-> GetCondaEnv(conda_found), args |-> args]
        before == << <<"load_env", target>>, <<"which_conda">>,
                     <<"exec", tool_name, command>>, <<"exit", tool_name, exit>> >>
    IN  IF exit # 0
        THEN [raised |-> TRUE,
              events |-> before \o << <<"diag", tool_name>>, <<"raise", "tool">> >>]
        ELSE [raised |-> FALSE, events |-> before]

\* ------------------------------------------------------------------------
\* State and inputs
\* ------------------------------------------------------------------------
\* The test object after SystemTestsCommon.__init__: self._case is the case
\* the test was created for; every other field is assigned later.
NewSelf == [case |-> "rxboth"]

\* Length of one unit of STOP_OPTION, as the number of units in a year.
UnitsPerYear ==
    [year |-> 1, month |-> 12, day |-> 365, hour |-> 24 * 365,
     minute |-> 60 * 24 * 365, second |-> 60 * 60 * 24 * 365]

\* The values of STOP_OPTION that CIME accepts.
SupportedOptions ==
    [year |-> {<<"nyear">>, <<"nyear", "s">>},
     month |-> {<<"nmonth">>, <<"nmonth", "s">>},
     day |-> {<<"nday">>, <<"nday", "s">>},
     hour |-> {<<"nhour">>, <<"nhour", "s">>},
     minute |-> {<<"nminute">>, <<"nminute", "s">>},
     second |-> {<<"nsecond">>, <<"nsecond", "s">>}]
OtherOptions ==
    {<<"nstep">>, <<"nstep", "s">>, <<"none">>, <<"never">>, <<"date">>,
     <<"ifdays0">>, <<"end">>}
AllSupportedOptions == UNION {SupportedOptions[u] : u \in DOMAIN SupportedOptions}

\* STOP_N one below, at and one above each multiple of each unit's year.
StopNValues ==
    {n \in {m * UnitsPerYear[u] + d :
                m \in 0..MaxYears, u \in DOMAIN UnitsPerYear, d \in {-1, 0, 1}} :
        n >= 0}

AllStops == (AllSupportedOptions \cup OtherOptions) \X StopNValues

\* A few run lengths for the specifications that explore the whole workflow.
FewStops ==
    {<<nyears, 5>>, <<nyears, MaxYears>>, <<<<"nmonth", "s">>, 60>>,
     <<nyears, 3>>, <<<<"nstep", "s">>, 3>>, <<<<"nstep", "s">>, 7>>}

plain_caseroot == <<"/", "scratch", "/", "RXCROPMATURITY_case">>
fill0_caseroot == <<"/", "scratch", "/", "fill0", "/", "RXCROPMATURITY_case">>

\* Lines of a generated lnd_in.
LineFlanduse(indent, value) ==
    indent \o <<"flanduse_timeseries", "sp", "=", "sp", "'">> \o value \o <<"'">>
lu_a == <<"landuse_a.nc">>
lu_b == <<"landuse_b.nc">>
LndInLines ==
    {LineFlanduse(<<"sp">>, lu_a), LineFlanduse(<<>>, lu_b),
     LineFlanduse(<<"sp">>, <<"sp">>),
     <<"sp", "fsurdat", "sp", "=", "sp", "'", "surfdata.nc", "'">>,
     <<"&clm_inparm">>}
RECURSIVE TextsUpTo(_)
TextsUpTo(n) ==
    IF n = 0 THEN {<<>>}
    ELSE LET shorter == TextsUpTo(n - 1)
         IN  shorter \cup {Append(t, l) : t \in {x \in shorter : Len(x) = n - 1},
                                          l \in LndInLines}
AllLndIns == TextsUpTo(MaxLines)
FewLndIns == {<<>>, <<<<"&clm_inparm">>, LineFlanduse(<<"sp">>, lu_a)>>}

\* Names of the files the derivation tool may leave in its output directory.
OutFileNames ==
    {<<"gdds_", "20230101", ".nc">>, <<"gdds_", "20230102", ".nc">>,
     <<"gdds_", "fill0", "_", "20230101", ".nc">>,
     <<"gdds_", "20230101", ".log">>, <<"figs", ".nc">>}
AllOutDirs == {d \in SUBSET OutFileNames : Cardinality(d) <= MaxOutFiles}
FewOutDirs ==
    {{<<"gdds_", "20230101", ".nc">>, <<"gdds_", "fill0", "_", "20230101", ".nc">>}, {}}

ExitCodes == {0, 1}
Grids == {"10x15", "1.9x2.5", "0.9x1.25"}
ExistingSets ==
    {BlessedFiles, BlessedFiles \ {sdates_f10}, BlessedFiles \ {hdates_f10},
     BlessedFiles \ {hdates_f19}}

InitWith(stops, grids, existings, caseroots, startyears, lndins, outdirs, flags) ==
    /\ pc = "new"
    /\ \E st \in stops, g \in grids, cr \in caseroots, y \in startyears :
          case = [STOP_OPTION |-> st[1], STOP_N |-> st[2], LND_GRID |-> g,
                  CASEROOT |-> cr, RUN_STARTYEAR |-> y,
                  COMP_ROOT_DIR_LND |-> "ctsm_root",
                  LND_DOMAIN_MESH |-> "lnd_mesh.nc",
                  DOUT_S_ROOT |-> "dout_s_root"]
    /\ \E ex \in existings, li \in lndins, od \in outdirs, lu \in flags, co \in flags :
          env = [existing |-> ex, lnd_in |-> li, gdds_out |-> od,
                 lu_present |-> lu, conda_found |-> co]
    /\ \E stale \in flags :
          fs = [clone_exists |-> stale, clone_fresh |-> FALSE, lu_out |-> FALSE,
                gdds_dir |-> None]
    /\ self = NewSelf
    /\ user_nl = [rxboth |-> <<>>, gddgen |-> <<>>]
    /\ trace = <<>>
    /\ failed = FALSE

\* The whole workflow over a few values of every input.
InitWorkflow ==
    InitWith(FewStops, Grids, ExistingSets, {plain_caseroot, fill0_caseroot},
             {2000, 2001}, FewLndIns, FewOutDirs, BOOLEAN)

\* Every run length, the other inputs fixed.
InitRunLength ==
    InitWith(AllStops, {"10x15"}, {BlessedFiles}, {plain_caseroot}, {2000},
             {<<>>}, {{<<"gdds_", "20230101", ".nc">>}}, {FALSE})

\* Every lnd_in text, the other inputs fixed.
InitScan ==
    InitWith({<<nyears, 5>>}, {"1.9x2.5"}, {BlessedFiles}, {plain_caseroot}, {2000},
             AllLndIns, {{<<"gdds_", "20230101", ".nc">>}}, {FALSE})

\* Every content of the derivation tool's output directory.
InitDiscovery ==
    InitWith({<<nyears, 5>>}, {"10x15"}, {BlessedFiles},
             {plain_caseroot, fill0_caseroot}, {2000}, {<<>>}, AllOutDirs, {FALSE})

Init == InitWorkflow \/ InitRunLength \/ InitScan \/ InitDiscovery

\* ------------------------------------------------------------------------
\* Actions
\* ------------------------------------------------------------------------
\* self._get_caseroot(): the root of the active case.
GetCaseroot == IF self.case = "gddgen" THEN self.path_gddgen ELSE case.CASEROOT

\* An exception leaves the method: nothing of the workflow runs after it.
RaiseEvent(kind) == << <<"raise", kind>> >>
\* Variant: the error is logged but not raised.
Construct_NoRaise ==
    /\ pc = "new"
    /\ LET s == NormalizeStop(case.STOP_N, case.STOP_OPTION)
           error_message == StopErrorMessage(s)
       IN  /\ pc' = "constructed"
           /\ failed' = (error_message # "none")
           /\ trace' = IF error_message # "none"
                       THEN trace \o << <<"logger.error", error_message>> >>
                       ELSE trace
           /\ self' = SetAttrs(self, [run_Nyears |-> IntOf(s)])
    /\ UNCHANGED <<case, env, fs, user_nl>>

\* Lines 32-72: __init__.
Construct ==
    /\ pc = "new"
    /\ LET s == NormalizeStop(case.STOP_N, case.STOP_OPTION)
           error_message == StopErrorMessage(s)
       IN  IF error_message # "none"
           THEN /\ pc' = "raised"
                /\ failed' = TRUE
                /\ trace' = trace \o << <<"logger.error", error_message>> >>
                                  \o RaiseEvent(error_message)
                /\ self' = self
           ELSE /\ pc' = "constructed"
                /\ failed' = failed
                /\ trace' = trace
                /\ self' = SetAttrs(self, [run_Nyears |-> IntOf(s)])
    /\ UNCHANGED <<case, env, fs, user_nl>>

\* Lines 83-94: remove a pre-existing clone, clone the case, make it active.
CloneGddGenCase ==
    /\ pc = "constructed"
    /\ LET clone_path == case.CASEROOT \o <<".gddgen">>
       IN  /\ self' = SetAttrs(self, [path_gddgen |-> clone_path, case |-> "gddgen"])
           /\ trace' = trace
                  \o (IF fs.clone_exists THEN << <<"rmtree", clone_path>> >> ELSE <<>>)
                  \o << <<"create_clone", clone_path>>, <<"chdir", clone_path>>,
                        <<"set_active_case", "gddgen">> >>
    /\ fs' = [fs EXCEPT !.clone_exists = TRUE, !.clone_fresh = TRUE,
                        !.lu_out = env.lu_present]
    /\ user_nl' = [user_nl EXCEPT !.gddgen = user_nl.rxboth]
    /\ pc' = "cloned"
    /\ UNCHANGED <<case, env, failed>>

\* A call of _setup_all on the active case, continuing at `next`.
CallSetupAll(next) ==
    LET r == SetupAll(self, case, env.existing)
    IN  /\ self' = r.me
        /\ user_nl' = [user_nl EXCEPT ![self.case] = @ \o r.lines]
        /\ IF r.raised # "none"
           THEN /\ pc' = "raised"
                /\ failed' = TRUE
                /\ trace' = trace \o r.events \o RaiseEvent(r.raised)
           ELSE /\ pc' = next
                /\ failed' = failed
                /\ trace' = trace \o r.events
        /\ UNCHANGED <<case, env, fs>>
\* Variant: the lines go to the case the test was created for, whichever
\* case is active.
AppendToUserNlClm_Original(lines, next) ==
    /\ user_nl' = [user_nl EXCEPT !.rxboth = @ \o lines]
    /\ trace' = trace \o << <<"append_nl", "rxboth", lines>> >>
    /\ pc' = next
    /\ UNCHANGED <<case, env, fs, self, failed>>

\* _append_to_user_nl_clm(lines), lines 389-396, continuing at `next`.
AppendToUserNlClm(lines, next) ==
    /\ user_nl' = [user_nl EXCEPT ![self.case] = @ \o lines]
    /\ trace' = trace \o << <<"append_nl", self.case, lines>> >>
    /\ pc' = next
    /\ UNCHANGED <<case, env, fs, self, failed>>

\* Line 97.
SetupAllGddgen ==
    /\ pc = "cloned"
    /\ CallSetupAll("setup_gddgen")

\* Lines 101-104.
ConfigureGddGenRun ==
    /\ pc = "setup_gddgen"
    /\ AppendToUserNlClm(<< <<"generate_crop_gdds", ".true.">>,
                            <<"use_mxmat", ".false.">> >>, "configured_gddgen")

\* Lines 111-119.
ScanLndIn ==
    /\ pc = "configured_gddgen"
    /\ self' = SetAttrs(self,
                  [lnd_in_path |-> PathJoin(PathJoin(self.path_gddgen, <<"CaseDocs">>),
                                            <<"lnd_in">>),
                   flanduse_timeseries_in |-> ScanFlanduse(env.lnd_in)])
    /\ trace' = trace \o << <<"create_namelists", "gddgen">> >>
    /\ pc' = "scanned"
    /\ UNCHANGED <<case, env, fs, user_nl, failed>>
\* Variant: the last fake year is the last year of the run, not the one
\* after it.
MakeLuArgs_LastRunYear(me, out) ==
    LET first_fake_year == me.run_startyear
        last_fake_year == first_fake_year + me.run_Nyears - 1
    IN  [flanduse_timeseries |-> me.flanduse_timeseries_in,
         y1 |-> first_fake_year, yN |-> last_fake_year, outfile |-> out]

\* Lines 227-239: the arguments of make_lu_for_gddgen.py.
MakeLuArgs(me, out) ==
    LET first_fake_year == me.run_startyear
        last_fake_year == first_fake_year + me.run_Nyears
    IN  [flanduse_timeseries |-> me.flanduse_timeseries_in,
         y1 |-> first_fake_year, yN |-> last_fake_year, outfile |-> out]

\* Lines 123-130 and _run_make_lu_for_gddgen, lines 219-246.
MakeLuForGddgen ==
    /\ pc = "scanned"
    /\ \E exit \in ExitCodes :
        IF self.flanduse_timeseries_in = None
        THEN /\ pc' = "lu_done"
             /\ UNCHANGED <<self, fs, user_nl, trace, failed>>
        ELSE
          LET out == PathJoin(self.path_gddgen, <<"flanduse_timeseries.nc">>)
              me == SetAttrs(self, [flanduse_timeseries_out |-> out])
              args == MakeLuArgs(self, out)
              r == RunPythonScript("gddgen", GetCaseroot, env.conda_found,
                                   "make_lu_for_gddgen.py", args, exit)
              line == << <<"flanduse_timeseries", out>> >>
              before == trace \o << <<"check_all_input_data", "gddgen">> >>
          IN  /\ self' = me
              /\ IF fs.lu_out
                 THEN /\ pc' = "lu_done"
                      /\ fs' = fs
                      /\ failed' = failed
                      /\ user_nl' = [user_nl EXCEPT ![self.case] = @ \o line]
                      /\ trace' = before \o << <<"append_nl", self.case, line>> >>
                 ELSE IF r.raised
                 THEN /\ pc' = "raised"
                      /\ fs' = fs
                      /\ failed' = (failed \/ exit # 0)
                      /\ user_nl' = user_nl
                      /\ trace' = before \o r.events
                 ELSE /\ pc' = "lu_done"
                      /\ fs' = [fs EXCEPT !.lu_out = (exit = 0)]
                      /\ failed' = (failed \/ exit # 0)
                      /\ user_nl' = [user_nl EXCEPT ![self.case] = @ \o line]
                      /\ trace' = before \o r.events
                                         \o << <<"append_nl", self.case, line>> >>
    /\ UNCHANGED <<case, env>>

\* self.run_indv(...) on the active case, continuing at `next`; the model run
\* either completes or raises.
RunIndv(next) ==
    \E ok \in BOOLEAN :
        /\ pc' = IF ok THEN next ELSE "raised"
        /\ failed' = (failed \/ ~ok)
        /\ trace' = trace \o << <<"run_indv", self.case>> >>
                          \o (IF ok THEN <<>> ELSE RaiseEvent("run"))
        /\ UNCHANGED <<case, env, fs, self, user_nl>>

\* Lines 140-141.
RunGddGenSimulation ==
    /\ pc = "lu_done"
    /\ RunIndv("gddgen_ran")

\* Line 143 and _run_generate_gdds, lines 334-366.
GenerateGdds ==
    /\ pc = "gddgen_ran"
    /\ \E exit \in ExitCodes :
        LET dir == PathJoin(self.path_gddgen, <<"generate_gdds_out">>)
            args == [input_dir |-> <<case.DOUT_S_ROOT, "lnd", "hist">>,
                     first_season |-> self.run_startyear + 2,
                     last_season |-> self.run_startyear + self.run_Nyears - 2,
                     sdates_file |-> self.sdatefile,
                     hdates_file |-> self.hdatefile,
                     output_dir |-> "generate_gdds_out"]
            r == RunPythonScript("gddgen", GetCaseroot, env.conda_found,
                                 "generate_gdds.py", args, exit)
            written == IF exit = 0 THEN env.gdds_out ELSE {}
            generated_gdd_files == GeneratedGddFiles(dir, written)
            before == trace \o << <<"makedirs", dir>> >> \o r.events
        IN  /\ fs' = [fs EXCEPT !.gdds_dir = written]
            /\ IF r.raised
               THEN /\ pc' = "raised"
                    /\ failed' = (failed \/ exit # 0)
                    /\ trace' = before
                    /\ self' = SetAttrs(self, [generate_gdds_dir |-> dir])
               ELSE IF Cardinality(generated_gdd_files) # 1
               THEN /\ pc' = "raised"
                    /\ failed' = TRUE
                    /\ trace' = before \o << <<"glob", dir>> >> \o RaiseEvent("discovery")
                    /\ self' = SetAttrs(self, [generate_gdds_dir |-> dir])
               ELSE /\ pc' = "gdds_generated"
                    /\ failed' = (failed \/ exit # 0)
                    /\ trace' = before \o << <<"glob", dir>> >>
                    /\ self' = SetAttrs(self,
                                  [generate_gdds_dir |-> dir,
                                   gdds_file |-> CHOOSE x \in generated_gdd_files : TRUE])
    /\ UNCHANGED <<case, env, user_nl>>

\* Lines 148-149.
SwitchToRxboth ==
    /\ pc = "gdds_generated"
    /\ self' = SetAttrs(self, [case |-> "rxboth"])
    /\ trace' = trace \o << <<"chdir", case.CASEROOT>>, <<"set_active_case", "rxboth">> >>
    /\ pc' = "switched"
    /\ UNCHANGED <<case, env, fs, user_nl, failed>>

\* Line 152.
SetupAllRxboth ==
    /\ pc = "switched"
    /\ CallSetupAll("setup_rxboth")

\* Lines 156-159.
ConfigurePrescribedRun ==
    /\ pc = "setup_rxboth"
    /\ AppendToUserNlClm(<< <<"generate_crop_gdds", ".false.">>,
                            <<"stream_fldFileName_cultivar_gdds", self.gdds_file>> >>,
                         "configured_rxboth")

\* Line 161.
RunPrescribedSimulation ==
    /\ pc = "configured_rxboth"
    /\ RunIndv("rxboth_ran")
\* Variant: the last usable year trims one year instead of two.
CheckRxbothRun_TrimOne ==
    /\ pc = "rxboth_ran"
    /\ \E exit \in ExitCodes :
        LET args == [directory |-> PathJoin(GetCaseroot, <<"run">>),
                     y1 |-> self.run_startyear + 2,
                     yN |-> self.run_startyear + self.run_Nyears - 1,
                     rx_sdates_file |-> self.sdatefile,
                     rx_gdds_file |-> self.gdds_file]
            r == RunPythonScript(self.case, GetCaseroot, env.conda_found,
                                 "check_rxboth_run.py", args, exit)
        IN  /\ pc' = IF r.raised THEN "raised" ELSE "done"
            /\ failed' = (failed \/ exit # 0)
            /\ trace' = trace \o r.events
    /\ UNCHANGED <<case, env, fs, self, user_nl>>

\* Line 167 and _run_check_rxboth_run, lines 291-306.
CheckRxbothRun ==
    /\ pc = "rxboth_ran"
    /\ \E exit \in ExitCodes :
        LET args == [directory |-> PathJoin(GetCaseroot, <<"run">>),
                     y1 |-> self.run_startyear + 2,
                     yN |-> self.run_startyear + self.run_Nyears - 2,
                     rx_sdates_file |-> self.sdatefile,
                     rx_gdds_file |-> self.gdds_file]
            r == RunPythonScript(self.case, GetCaseroot, env.conda_found,
                                 "check_rxboth_run.py", args, exit)
        IN  /\ pc' = IF r.raised THEN "raised" ELSE "done"
            /\ failed' = (failed \/ exit # 0)
            /\ trace' = trace \o r.events
    /\ UNCHANGED <<case, env, fs, self, user_nl>>

Next ==
    \/ Construct
    \/ CloneGddGenCase
    \/ SetupAllGddgen
    \/ ConfigureGddGenRun
    \/ ScanLndIn
    \/ MakeLuForGddgen
    \/ RunGddGenSimulation
    \/ GenerateGdds
    \/ SwitchToRxboth
    \/ SetupAllRxboth
    \/ ConfigurePrescribedRun
    \/ RunPrescribedSimulation
    \/ CheckRxbothRun

Spec == Init /\ [][Next]_vars

\* ------------------------------------------------------------------------
\* Properties
\* ------------------------------------------------------------------------
\* The error __init__ logged and raised, "none" if it returned normally.
InitError ==
    IF trace # <<>> /\ trace[1][1] = "logger.error" THEN trace[1][2] ELSE "none"

\* The kind of the exception that ended the workflow, "none" if none did.
LastRaise ==
    IF trace # <<>> /\ trace[Len(trace)][1] = "raise"
    THEN trace[Len(trace)][2] ELSE "none"

\* The positions of the trace that hold an event of one of the kinds.
EventsOf(kinds) == {i \in DOMAIN trace : trace[i][1] \in kinds}

\* The unit of a supported STOP_OPTION.
UnitOf(option) == CHOOSE u \in DOMAIN SupportedOptions : option \in SupportedOptions[u]

\* C1: once __init__ has run on a STOP_OPTION of the six supported units, it
\* has raised the run-length error if STOP_N is less than 5 years of that
\* unit, and has returned normally if STOP_N is 5 years or more.
C1_RunLengthError ==
    (pc # "new" /\ case.STOP_OPTION \in AllSupportedOptions) =>
        IF case.STOP_N < 5 * UnitsPerYear[UnitOf(case.STOP_OPTION)]
        THEN InitError = "length" /\ LastRaise = "length" /\ pc = "raised"
        ELSE InitError = "none" /\ HasAttr(self, "run_Nyears")

\* __init__ has refused 1824 ndays with the run-length error.
C1_Witness ==
    /\ case.STOP_OPTION = ndays /\ case.STOP_N = 1824
    /\ pc = "raised" /\ InitError = "length"

\* C2: once __init__ has run on a STOP_OPTION outside the six supported
\* units, it has raised the unit error, whatever STOP_N is.
C2_UnitError ==
    (pc # "new" /\ case.STOP_OPTION \notin AllSupportedOptions) =>
        InitError = "unit" /\ LastRaise = "unit"

\* C3: when __init__ raised, nothing but the logging and the raise has
\* happened (no removal of a clone, no clone, no namelist line, no
\* subprocess), and after __init__ the number of run years never changes.
C3_ValidationOnceNoSideEffects ==
    /\ [](InitError # "none" =>
            /\ pc = "raised"
            /\ EventsOf({"logger.error", "raise"}) = DOMAIN trace
            /\ Len(trace) = 2
            /\ ~fs.clone_fresh
            /\ user_nl.rxboth = <<>> /\ user_nl.gddgen = <<>>)
    /\ [][(pc # "new" /\ HasAttr(self, "run_Nyears")) =>
            (HasAttr(self', "run_Nyears") /\ self'.run_Nyears = self.run_Nyears)]_vars
    /\ [][(pc # "new" /\ ~HasAttr(self, "run_Nyears")) => ~HasAttr(self', "run_Nyears")]_vars

\* __init__ has refused a run of 3 years while a clone of an earlier run
\* exists; the clone is still there.
C3_Witness ==
    /\ case.STOP_OPTION = nyears /\ case.STOP_N = 3
    /\ pc = "raised" /\ InitError = "length"
    /\ fs.clone_exists

\* C9: the number of run years __init__ stores is the floor of STOP_N divided
\* by the number of units in a year: 1, 12, 365, 24*365, 60*24*365 and
\* 60*60*24*365 for years, months, days, hours, minutes and seconds.
C9_RunYearsIsFloor ==
    (HasAttr(self, "run_Nyears") /\ case.STOP_OPTION \in AllSupportedOptions) =>
        self.run_Nyears = case.STOP_N \div UnitsPerYear[UnitOf(case.STOP_OPTION)]

\* __init__ has accepted 2189 ndays, one day short of 6 years, as 5 years.
C9_Witness ==
    /\ case.STOP_OPTION = <<"nday">> /\ case.STOP_N = 6 * 365 - 1
    /\ HasAttr(self, "run_Nyears") /\ self.run_Nyears = 5

\* The kinds of exception that report a wrong configuration.
ConfigErrors == {"length", "unit", "resolution", "sdatefile", "hdatefile"}

\* The events that change a clone or start an external tool or a model run.
ExternalEvents == {"rmtree", "create_clone", "exec", "run_indv"}

\* C4 as stated: when a configuration error is raised, no clone has been
\* removed or created and no external tool or model run has happened.
C4_ConfigErrorBeforeAnything ==
    LastRaise \in ConfigErrors => EventsOf(ExternalEvents) = {}

\* C4 as amended: a run-length or unit error is raised by __init__ before
\* anything else has happened; an unsupported resolution or a missing date
\* file is raised by _setup_all, after the clone has been created, and when
\* the first call of _setup_all raises it no namelist line has been appended
\* and no external tool or model run has happened.
C4_ConfigErrorAtSetup ==
    /\ LastRaise \in {"length", "unit"} =>
          EventsOf({"logger.error", "raise"}) = DOMAIN trace
    /\ LastRaise \in {"resolution", "sdatefile", "hdatefile"} =>
          /\ EventsOf({"create_clone"}) # {}
          /\ self.case = "gddgen" =>
                /\ EventsOf({"exec", "run_indv", "append_nl"}) = {}
                /\ user_nl.gddgen = <<>> /\ user_nl.rxboth = <<>>

\* The first _setup_all has refused a missing harvest date file, after the
\* clone of an earlier run was removed and a new one created.
C4_Witness ==
    /\ pc = "raised" /\ LastRaise = "hdatefile"
    /\ EventsOf({"rmtree"}) # {} /\ EventsOf({"create_clone"}) # {}

\* C5: after a failure (a configuration error, a discovery error, a failed
\* tool or model run) the workflow has ended with an exception, and nothing
\* further happens: no event, no namelist line, no change of the files.
C5_FailureAborts ==
    /\ [](failed => (pc = "raised" /\ LastRaise # "none"))
    /\ [](pc = "done" => ~failed)
    /\ [][failed => UNCHANGED <<trace, user_nl, fs, self>>]_vars

\* The derivation tool has failed after the GDD-generating run: the workflow
\* has ended without the prescribed run.
C5_Witness ==
    /\ failed /\ pc = "raised" /\ LastRaise = "tool"
    /\ \E i \in DOMAIN trace : trace[i] = <<"exit", "generate_gdds.py", 1>>
    /\ EventsOf({"run_indv"}) # {}

\* C6: every command of _run_python_script is run after the environment of
\* the case was loaded, and a command that exits non-zero is followed by the
\* diagnostic text and the re-raise, which end the workflow: no glob for the
\* output and no namelist line follow it.
C6_ToolFailureReraised ==
    \A i \in EventsOf({"exit"}) :
        /\ i >= 4
        /\ trace[i - 3][1] = "load_env"
        /\ trace[i - 1][1] = "exec" /\ trace[i - 1][2] = trace[i][2]
        /\ trace[i][3] # 0 =>
              /\ Len(trace) = i + 2
              /\ trace[i + 1] = <<"diag", trace[i][2]>>
              /\ trace[i + 2] = <<"raise", "tool">>
              /\ pc = "raised"

\* The land-use tool has failed: the workflow has ended and the clone has not
\* received a flanduse_timeseries line.
C6_Witness ==
    /\ pc = "raised"
    /\ \E i \in DOMAIN trace : trace[i] = <<"exit", "make_lu_for_gddgen.py", 1>>
    /\ \A k \in DOMAIN user_nl.gddgen : user_nl.gddgen[k][1] # "flanduse_timeseries"

\* The files of the output directory whose name matches gdds_*.nc and does
\* not contain fill0.
MaturityFileNames == {n \in fs.gdds_dir : GlobGdds(n) /\ ~Contains("fill0", n)}

\* C7: once the derivation tool has succeeded, the discovery has set the
\* maturity file exactly when one file name of the output directory matches
\* gdds_*.nc without fill0, and then to the path of that file.
C7_DiscoveryByFileName ==
    EventsOf({"glob"}) # {} =>
        /\ HasAttr(self, "gdds_file") <=> Cardinality(MaturityFileNames) = 1
        /\ HasAttr(self, "gdds_file") =>
              \E n \in MaturityFileNames :
                  self.gdds_file = PathJoin(self.generate_gdds_dir, n)

\* C8: after a call of _setup_all, the two date files are those of the grid
\* and exist; an unsupported grid has raised without any check of a file; a
\* missing file has raised; in both cases no namelist line was appended.
C8_ResolverOutcome ==
    LET supported == case.LND_GRID \in {"10x15", "1.9x2.5"}
        sdate == IF case.LND_GRID = "10x15" THEN sdates_f10 ELSE sdates_f19
        hdate == IF case.LND_GRID = "10x15" THEN hdates_f10 ELSE hdates_f19
        missing == sdate \notin env.existing \/ hdate \notin env.existing
    IN  (pc \notin {"new", "constructed", "cloned"} /\ InitError = "none") =>
          /\ (~supported) =>
                /\ pc = "raised" /\ LastRaise = "resolution"
                /\ EventsOf({"exists", "append_nl"}) = {}
                /\ ~HasAttr(self, "sdatefile")
          /\ (supported /\ missing) =>
                /\ pc = "raised" /\ LastRaise \in {"sdatefile", "hdatefile"}
                /\ EventsOf({"append_nl"}) = {}
                /\ user_nl.gddgen = <<>>
          /\ (supported /\ ~missing) =>
                /\ self.sdatefile = sdate /\ self.hdatefile = hdate
                /\ LastRaise \notin {"resolution", "sdatefile", "hdatefile"}
                /\ EventsOf({"append_nl"}) # {}

\* _setup_all has resolved the files of the 1.9x2.5 grid and appended the
\* common namelist lines to the clone.
C8_Witness ==
    /\ pc = "setup_gddgen" /\ case.LND_GRID = "1.9x2.5"
    /\ self.sdatefile = sdates_f19 /\ self.hdatefile = hdates_f19
    /\ user_nl.gddgen # <<>>

\* The values a generated lnd_in gives to flanduse_timeseries, and the lines
\* of the form flanduse_timeseries = 'X', optionally indented.
FlanduseValues == {lu_a, lu_b, <<"sp">>}
IsFlanduseLine(line, value) ==
    \E indent \in {<<>>, <<"sp">>, <<"sp", "sp">>} : line = LineFlanduse(indent, value)
FlanduseLines ==
    {i \in DOMAIN env.lnd_in : \E v \in FlanduseValues : IsFlanduseLine(env.lnd_in[i], v)}

\* C10: the scan yields the value of the first line of lnd_in of the form
\* flanduse_timeseries = 'X', and None if there is no such line; the land-use
\* step has run exactly when the scan found a value.
C10_ScanFindsFirstValue ==
    /\ HasAttr(self, "flanduse_timeseries_in") =>
          IF FlanduseLines = {}
          THEN self.flanduse_timeseries_in = None
          ELSE IsFlanduseLine(env.lnd_in[SetMin(FlanduseLines)],
                              self.flanduse_timeseries_in)
    /\ pc \in {"lu_done", "gddgen_ran", "gdds_generated", "switched", "setup_rxboth",
               "configured_rxboth", "rxboth_ran", "done"} =>
          /\ self.flanduse_timeseries_in # None <=>
                EventsOf({"check_all_input_data"}) # {}
          /\ self.flanduse_timeseries_in # None <=>
                HasAttr(self, "flanduse_timeseries_out")

\* The scan of an lnd_in with two flanduse_timeseries lines has taken the
\* value of the first, and the land-use step has run.
C10_Witness ==
    /\ pc = "lu_done"
    /\ Len(env.lnd_in) = 2
    /\ env.lnd_in[1] = LineFlanduse(<<>>, lu_b)
    /\ env.lnd_in[2] = LineFlanduse(<<"sp">>, lu_a)
    /\ self.flanduse_timeseries_in = lu_b
    /\ HasAttr(self, "flanduse_timeseries_out")


\* The stage of section 4.3 that an event starts, 0 for any other event.
StageOf(e) ==
    IF e[1] = "create_clone" THEN 1
    ELSE IF e[1] = "append_nl" /\ \E k \in DOMAIN e[3] :
                e[3][k][1] = "generate_crop_gdds" /\ e[3][k][2] = ".true." THEN 2
    ELSE IF e[1] = "run_indv" /\ e[2] = "gddgen" THEN 3
    ELSE IF e[1] = "exec" /\ e[2] = "generate_gdds.py" THEN 4
    ELSE IF e[1] = "append_nl" /\ \E k \in DOMAIN e[3] :
                e[3][k][1] = "generate_crop_gdds" /\ e[3][k][2] = ".false." THEN 5
    ELSE IF e[1] = "run_indv" /\ e[2] = "rxboth" THEN 6
    ELSE IF e[1] = "exec" /\ e[2] = "check_rxboth_run.py" THEN 7
    ELSE 0
IsStageEvent(e) == StageOf(e) # 0

\* The stages started so far, in the order of their start.
StagesStarted ==
    LET started == SelectSeq(trace, IsStageEvent)
    IN  [i \in DOMAIN started |-> StageOf(started[i])]

\* The values the prescribed run's namelist gives to the maturity file.
CultivarGddsValues ==
    {user_nl.rxboth[k][2] : k \in {j \in DOMAIN user_nl.rxboth :
                                user_nl.rxboth[j][1] = "stream_fldFileName_cultivar_gdds"}}

\* C11: the stages start in the fixed order 1..7, each once and none skipped;
\* the prescribed run starts only after the GDD-generating run and the
\* derivation tool have succeeded and one maturity file was found among the
\* files of the output directory; the namelist line of the prescribed run and
\* the validation tool both name that file.
C11_StagesInOrder ==
    /\ \A i \in DOMAIN StagesStarted : StagesStarted[i] = i
    /\ Len(StagesStarted) >= 5 =>
          /\ \E i \in DOMAIN trace : trace[i] = <<"exit", "generate_gdds.py", 0>>
          /\ Cardinality(MaturityFileNames) = 1
          /\ \E n \in MaturityFileNames :
                /\ self.gdds_file = PathJoin(PathJoin(self.path_gddgen,
                                                      <<"generate_gdds_out">>), n)
                /\ CultivarGddsValues = {self.gdds_file}
    /\ \A i \in DOMAIN trace :
          (trace[i][1] = "exec" /\ trace[i][2] = "check_rxboth_run.py") =>
              /\ trace[i][3].args.rx_gdds_file = self.gdds_file
              /\ \E j \in 1..(i - 1) : trace[j] = <<"run_indv", "rxboth">>

\* The whole workflow has run: the seven stages have started, in order.
C11_Witness ==
    /\ pc = "done"
    /\ StagesStarted = <<1, 2, 3, 4, 5, 6, 7>>


\* The case that was active when the event at position i happened: the one
\* of the last _set_active_case before it, the test's own case if none.
ActiveCaseAt(i) ==
    LET switches == {j \in 1..(i - 1) : trace[j][1] = "set_active_case"}
    IN  IF switches = {} THEN "rxboth" ELSE trace[SetMax(switches)][2]

\* The lines that only the GDD-generating run may receive.
IsGddGenLine(line) ==
    \/ line[1] = "generate_crop_gdds" /\ line[2] = ".true."
    \/ line[1] = "use_mxmat"
    \/ line[1] = "flanduse_timeseries"

\* C12: the original case never receives a line of the GDD-generating run
\* and receives nothing while the clone is the active case; once the
\* prescribed run is configured the original case holds the common lines
\* once, then generate_crop_gdds = .false. and the maturity-file line; every
\* append goes to the case that is active at that moment.
C12_NamelistFrame ==
    /\ \A k \in DOMAIN user_nl.rxboth : ~IsGddGenLine(user_nl.rxboth[k])
    /\ (self.case = "gddgen" \/ pc \in {"new", "constructed", "switched"}) =>
          user_nl.rxboth = <<>>
    /\ pc \in {"configured_rxboth", "rxboth_ran", "done"} \/ Len(StagesStarted) >= 5 =>
          user_nl.rxboth =
              ModifyUserNlAllruns(case.LND_DOMAIN_MESH, self.sdatefile)
                  \o << <<"generate_crop_gdds", ".false.">>,
                        <<"stream_fldFileName_cultivar_gdds", self.gdds_file>> >>
    /\ Len(StagesStarted) >= 3 =>
          \E k \in DOMAIN user_nl.gddgen :
              user_nl.gddgen[k][1] = "generate_crop_gdds" /\ user_nl.gddgen[k][2] = ".true."
    /\ \A i \in EventsOf({"append_nl"}) : trace[i][2] = ActiveCaseAt(i)
    /\ self.case = ActiveCaseAt(Len(trace) + 1)

\* The prescribed run is configured: the clone holds the lines of the
\* GDD-generating run with the test's land-use file, the original case none
\* of them.
C12_Witness ==
    /\ pc = "configured_rxboth"
    /\ \E k \in DOMAIN user_nl.gddgen : user_nl.gddgen[k][1] = "flanduse_timeseries"
    /\ \E k \in DOMAIN user_nl.gddgen : user_nl.gddgen[k][1] = "use_mxmat"
    /\ Len(user_nl.rxboth) = Len(ModifyUserNlAllruns("", "")) + 2


\* The arguments of the commands run for a tool.
ArgsOf(tool_name) ==
    {trace[i][3].args : i \in {j \in EventsOf({"exec"}) : trace[j][2] = tool_name}}

\* The run length in whole years of a validated STOP_N and STOP_OPTION.
RunYears == case.STOP_N \div UnitsPerYear[UnitOf(case.STOP_OPTION)]

\* C13: the derivation tool and the validation tool are given the seasons
\* S+2 to S+N-2, S the start year of the run and N >= 5 its length in years,
\* so the first season is never after the last; the validation tool is given
\* the bounds the derivation tool was given.
C13_SeasonBounds ==
    /\ \A a \in ArgsOf("generate_gdds.py") :
          /\ RunYears >= 5
          /\ a.first_season = case.RUN_STARTYEAR + 2
          /\ a.last_season = case.RUN_STARTYEAR + RunYears - 2
          /\ a.first_season <= a.last_season
    /\ \A a \in ArgsOf("check_rxboth_run.py") :
          /\ a.y1 = case.RUN_STARTYEAR + 2
          /\ a.yN = case.RUN_STARTYEAR + RunYears - 2
          /\ a.y1 <= a.yN
          /\ \E g \in ArgsOf("generate_gdds.py") :
                g.first_season = a.y1 /\ g.last_season = a.yN

\* A run of 5 years from 2001 has been validated over the seasons 2003 to
\* 2004, the seasons of its derivation.
C13_Witness ==
    /\ pc = "done" /\ case.RUN_STARTYEAR = 2001 /\ self.run_Nyears = 5
    /\ \E a \in ArgsOf("check_rxboth_run.py") : a.y1 = 2003 /\ a.yN = 2004
    /\ \E g \in ArgsOf("generate_gdds.py") : g.first_season = 2003 /\ g.last_season = 2004


\* The land-use file of the test and the lines of the clone that name one.
TestLanduseFile == PathJoin(case.CASEROOT \o <<".gddgen">>, <<"flanduse_timeseries.nc">>)
FlanduseAppends ==
    {i \in EventsOf({"append_nl"}) :
        \E k \in DOMAIN trace[i][3] : trace[i][3][k][1] = "flanduse_timeseries"}
ClonedFlanduseLines ==
    {k \in DOMAIN user_nl.gddgen : user_nl.gddgen[k][1] = "flanduse_timeseries"}

\* C14: the land-use tool runs at most once, only when the scan found a value
\* and the test's land-use file did not exist, for the years S to S+N; when
\* the GDD-generating run starts after a value was found, the clone has
\* received the line naming the test's land-use file exactly once, whether
\* the tool ran or the file existed; when no value was found the tool has not
\* run and the clone has no such line.
C14_LanduseFileOnce ==
    LET tool_runs == {i \in EventsOf({"exec"}) : trace[i][2] = "make_lu_for_gddgen.py"}
        sim_runs == {i \in DOMAIN trace : trace[i] = <<"run_indv", "gddgen">>}
    IN  /\ Cardinality(tool_runs) <= 1
        /\ \A i \in tool_runs :
              /\ self.flanduse_timeseries_in # None
              /\ ~env.lu_present
              /\ trace[i][3].args =
                    [flanduse_timeseries |-> self.flanduse_timeseries_in,
                     y1 |-> case.RUN_STARTYEAR,
                     yN |-> case.RUN_STARTYEAR + RunYears,
                     outfile |-> TestLanduseFile]
        /\ (HasAttr(self, "flanduse_timeseries_in") /\ self.flanduse_timeseries_in = None) =>
              tool_runs = {} /\ FlanduseAppends = {} /\ ClonedFlanduseLines = {}
        /\ (sim_runs # {} /\ self.flanduse_timeseries_in # None) =>
              /\ (tool_runs = {}) <=> env.lu_present
              /\ Cardinality(FlanduseAppends) = 1
              /\ Cardinality(ClonedFlanduseLines) = 1
              /\ \A k \in ClonedFlanduseLines : user_nl.gddgen[k][2] = TestLanduseFile
              /\ \A i \in FlanduseAppends :
                    /\ trace[i][2] = "gddgen"
                    /\ \A j \in sim_runs : i < j
                    /\ \A t \in tool_runs : t < i
        /\ \A k \in DOMAIN user_nl.rxboth : user_nl.rxboth[k][1] # "flanduse_timeseries"

\* The land-use tool has made the test's file for the 5 years from 2000, and
\* the GDD-generating run has started with the line naming it.
C14_Witness ==
    /\ \E i \in DOMAIN trace : trace[i] = <<"run_indv", "gddgen">>
    /\ \E a \in ArgsOf("make_lu_for_gddgen.py") : a.y1 = 2000 /\ a.yN = 2005
    /\ fs.lu_out /\ ~env.lu_present
    /\ Cardinality(ClonedFlanduseLines) = 1

====
